---- MODULE Spec2Model ----
(***************************************************************************)
(* Fitness studio booking API: the booking path.                           *)
(*                                                                         *)
(*   main.book_class -> BookingService.validate_booking_request            *)
(*                   -> BookingService.create_booking                      *)
(*                   -> Database.create_booking                            *)
(*                                                                         *)
(* Every call of a Database method opens its own sqlite3 connection        *)
(* (Database.get_connection).  The connections use the sqlite3 module's    *)
(* default transaction control: a SELECT runs outside any transaction and  *)
(* sees the committed tables; the first INSERT opens a transaction and     *)
(* takes the database write lock; the transaction's writes stay private    *)
(* to the connection until conn.commit().  One step of the model is one    *)
(* SQL statement (or the commit / rollback) of one caller, together with   *)
(* the local computation that follows it up to the next statement.         *)
(***************************************************************************)
EXTENDS Integers, Sequences, FiniteSets, TLC

\* ---------------------------------------------------------------- bounds
NumClasses == 2
MaxSlots == 2
MaxNow == 2
MaxRequests == 2

\* two callers, each with its own connections, run requests side by side
Callers == {1, 2}
ClassIds == 1..NumClasses
\* an id no class row has (the 999 of the tests)
MissingId == NumClasses + 1
RequestIds == ClassIds \cup {MissingId}
Entries == {"book", "svc", "db"}

\* the strings of the requests
JohnEmail == "john@example.com"
JohnEmailUpper == "JOHN@EXAMPLE.COM"
\* a second client (the "extra" client of test_create_booking_no_slots)
JaneEmail == "jane@example.com"
JohnDoe == "John Doe"
\* request bodies as any client may send them to POST /book: a name of one
\* letter between blanks (and what strip() leaves of it), the
\* "invalid-email" of test_book_class_invalid_email, an email followed by a
\* newline
ShortName == " J "
ShortNameStripped == "J"
InvalidEmail == "invalid-email"
JohnEmailNewline == "john@example.com\n"

Strings == { JohnEmail, JohnEmailUpper, JaneEmail, JohnDoe, ShortName,
             ShortNameStripped, InvalidEmail, JohnEmailNewline, "" }

\* The code inspects names and emails character by character: Chars gives the
\* characters of a string as a sequence of one-character strings, Str the
\* string of a sequence of characters.
Chars(s) ==
  CASE s = JohnEmail ->
         << "j","o","h","n","@","e","x","a","m","p","l","e",".","c","o","m" >>
    [] s = JohnEmailUpper ->
         << "J","O","H","N","@","E","X","A","M","P","L","E",".","C","O","M" >>
    [] s = JaneEmail ->
         << "j","a","n","e","@","e","x","a","m","p","l","e",".","c","o","m" >>
    [] s = JohnDoe -> << "J","o","h","n"," ","D","o","e" >>
    [] s = ShortName -> << " ","J"," " >>
    [] s = ShortNameStripped -> << "J" >>
    [] s = InvalidEmail ->
         << "i","n","v","a","l","i","d","-","e","m","a","i","l" >>
    [] s = JohnEmailNewline ->
         << "j","o","h","n","@","e","x","a","m","p","l","e",".","c","o","m","\n" >>
    [] s = "" -> << >>

Str(chars) == CHOOSE s \in Strings : Chars(s) = chars

\* the emails and names of well-formed requests, as the clients of the tests
\* send them
Emails == {JohnEmail, JaneEmail}
ClientNames == {JohnDoe}

\* the fields of request bodies: besides the well-formed ones, an upper-case
\* spelling of an email, the short name, an email that is no address, an
\* email followed by a newline, and a class id of 0
RawClassIds == RequestIds \cup {0}
RawNames == {JohnDoe, ShortName}
RawEmails == {JohnEmail, JohnEmailUpper, InvalidEmail, JohnEmailNewline}
RawRequests ==
  [ class_id : RawClassIds, client_name : RawNames \cup ClientNames,
    client_email : RawEmails \cup Emails ]


\* Optional values: None is the empty tuple, Some(x) the one-element tuple.
None == << >>
Some(x) == << x >>
IsNone(o) == o = << >>
Val(o) == o[1]

MsgNotFound == "Class not found or not available"
MsgNoSlots == "No available slots for this class"
MsgDuplicate == "You have already booked this class"
MsgFailed == "Failed to create booking. Please try again."
MsgInternal == "Internal server error"
MsgSuccess == "Booking successful!"

VARIABLES
  classes,        \* table classes: id -> row
  bookings,       \* table bookings, in rowid order (committed rows)
  lock,           \* the connection holding the database write lock, or None
  now,            \* the clock read by get_current_ist_time
  started,        \* number of requests issued so far
  pc,             \* each caller's position
  req,            \* each caller's request
  fitness_class,  \* local of validate_booking_request / create_booking
  class_data,     \* local of Database.create_booking
  booking_id,     \* local of Database.create_booking (cursor.lastrowid)
  txn,            \* uncommitted writes of the caller's connection
  dberr,          \* "Database error in create_booking" was logged
  dbret,          \* outcome of Database.create_booking
  svcret,         \* outcome of BookingService.create_booking
  http            \* outcome of book_class

vars == << classes, bookings, lock, now, started, pc, req, fitness_class,
           class_data, booking_id, txn, dberr, dbret, svcret, http >>

dbvars == << classes, bookings >>

\* ------------------------------------------------------------- seed data
SeedNames == << "Yoga", "Zumba", "HIIT", "Pilates", "Spinning" >>
SeedInstructors == << "Sarah Johnson", "Mike Rodriguez", "Emma Wilson",
                      "David Chen", "Lisa Thompson" >>

\* seed_data gives every class its own capacity (20, 15, 12, 10, 18), scaled
\* here to 1, 2, ... up to MaxSlots
SeedSlots(c) == IF c <= MaxSlots THEN c ELSE MaxSlots

\* seed_data: the classes start at increasing times after the seeding time 0
SeedClass(c, slots) ==
  [ name |-> SeedNames[c], date_time |-> c, instructor |-> SeedInstructors[c],
    available_slots |-> slots, total_slots |-> slots ]

NoTxn == [ row |-> None, dec |-> None ]
NoRaw == [ class_id |-> 0, client_name |-> "", client_email |-> "" ]
NoReq == [ entry |-> "none", class_id |-> 0, client_name |-> "",
          client_email |-> "", raw |-> NoRaw ]
NoOutcome == [ kind |-> "pending", value |-> None ]
NoHttp == [ status |-> 0, detail |-> "", body |-> None ]

Init ==
  /\ classes = [c \in ClassIds |-> SeedClass(c, SeedSlots(c))]
  /\ bookings = << >>
  /\ lock = None
  /\ now = 0
  /\ started = 0
  /\ pc = [p \in Callers |-> "idle"]
  /\ req = [p \in Callers |-> NoReq]
  /\ fitness_class = [p \in Callers |-> None]
  /\ class_data = [p \in Callers |-> None]
  /\ booking_id = [p \in Callers |-> None]
  /\ txn = [p \in Callers |-> NoTxn]
  /\ dberr = [p \in Callers |-> FALSE]
  /\ dbret = [p \in Callers |-> NoOutcome]
  /\ svcret = [p \in Callers |-> NoOutcome]
  /\ http = [p \in Callers |-> NoHttp]

\* ------------------------------------------------------------ models.py
LowerLetters == << "a","b","c","d","e","f","g","h","i","j","k","l","m",
                   "n","o","p","q","r","s","t","u","v","w","x","y","z" >>
UpperLetters == << "A","B","C","D","E","F","G","H","I","J","K","L","M",
                   "N","O","P","Q","R","S","T","U","V","W","X","Y","Z" >>
Letters == { LowerLetters[i] : i \in 1..26 } \cup { UpperLetters[i] : i \in 1..26 }
Digits == { "0","1","2","3","4","5","6","7","8","9" }
Whitespace == { " ", "\t", "\n" }

\* str.lower() on one character
LowerChar(ch) ==
  IF \E i \in 1..26 : UpperLetters[i] = ch
  THEN LowerLetters[CHOOSE i \in 1..26 : UpperLetters[i] = ch]
  ELSE ch

\* the characters of str.lower()
LowerChars(v) == [ i \in 1..Len(v) |-> LowerChar(v[i]) ]

\* str.lower()
LowerStr(s) == Str(LowerChars(Chars(s)))

RECURSIVE LStrip(_)
LStrip(v) ==
  IF v # << >> /\ Head(v) \in Whitespace THEN LStrip(Tail(v)) ELSE v

RECURSIVE RStrip(_)
RStrip(v) ==
  IF v # << >> /\ v[Len(v)] \in Whitespace
  THEN RStrip(SubSeq(v, 1, Len(v) - 1)) ELSE v

\* the characters of str.strip()
StripChars(v) == RStrip(LStrip(v))

\* str.strip()
Strip(s) == Str(StripChars(Chars(s)))

\* the character classes of email_pattern
EmailLocalChars == Letters \cup Digits \cup { ".", "_", "%", "+", "-" }
EmailDomainChars == Letters \cup Digits \cup { ".", "-" }

\* re.match(r'^[a-zA-Z0-9._%+-]+@[a-zA-Z0-9.-]+\.[a-zA-Z]{2,}$', v): one or
\* more local characters, "@", one or more domain characters, ".", two or
\* more letters, and then the end of the string; without re.MULTILINE "$"
\* also matches just before a newline that ends the string.
EmailPatternMatches(s) ==
  LET v == Chars(s) IN
  \E at \in 1..Len(v), dot \in 1..Len(v), last \in {Len(v) - 1, Len(v)} :
     /\ last = Len(v) \/ v[Len(v)] = "\n"
     /\ at >= 2
     /\ \A i \in 1..(at - 1) : v[i] \in EmailLocalChars
     /\ v[at] = "@"
     /\ dot >= at + 2
     /\ \A i \in (at + 1)..(dot - 1) : v[i] \in EmailDomainChars
     /\ v[dot] = "."
     /\ last - dot >= 2
     /\ \A i \in (dot + 1)..last : v[i] \in Letters

\* BookingRequest.validate_client_name: None stands for the ValueError
validate_client_name(v) ==
  IF StripChars(Chars(v)) = << >> THEN None
  ELSE IF Len(StripChars(Chars(v))) < 2 THEN None
  ELSE Some(Strip(v))

\* mutant: the validator returns the email as it came
validate_client_email_AsGiven(v) ==
  IF ~EmailPatternMatches(v) THEN None ELSE Some(v)

\* BookingRequest.validate_client_email
validate_client_email(v) ==
  IF ~EmailPatternMatches(v) THEN None ELSE Some(LowerStr(v))

\* BookingRequest.validate_class_id
validate_class_id(v) == IF v <= 0 THEN None ELSE Some(v)

\* BookingRequest(class_id, client_name, client_email): the validated request,
\* or None when a validator raises
BookingRequestOf(raw) ==
  IF \/ IsNone(validate_class_id(raw.class_id))
     \/ IsNone(validate_client_name(raw.client_name))
     \/ IsNone(validate_client_email(raw.client_email))
  THEN None
  ELSE Some([ class_id |-> Val(validate_class_id(raw.class_id)),
              client_name |-> Val(validate_client_name(raw.client_name)),
              client_email |-> Val(validate_client_email(raw.client_email)) ])

\* what the BookingRequest constructor gives for each request body, as a
\* table of << body, result >> pairs
BookingRequests == { << raw, BookingRequestOf(raw) >> : raw \in RawRequests }

\* the BookingRequest built from a request body
NewBookingRequest(raw) == (CHOOSE entry \in BookingRequests : entry[1] = raw)[2]

\* ------------------------------------------------------------ utils.py
\* convert_to_ist: the stored times are timezone-aware IST instants (seed_data
\* writes get_current_ist_time() + timedelta), so astimezone(IST) keeps the
\* instant; a time is modelled by its instant.
convert_to_ist(dt) == dt

\* mutant: the comparison is not strict
is_future_class_NotStrict(class_datetime, current_time) ==
  convert_to_ist(class_datetime) >= current_time

\* is_future_class, with the clock value it reads
is_future_class(class_datetime, current_time) ==
  convert_to_ist(class_datetime) > current_time

\* --------------------------------------------------- database.py (reads)
\* Database.get_class_by_id
DbGetClassById(class_id) ==
  IF class_id \in DOMAIN classes
  THEN Some([ id |-> class_id,
              name |-> classes[class_id].name,
              date_time |-> classes[class_id].date_time,
              instructor |-> classes[class_id].instructor,
              available_slots |-> classes[class_id].available_slots,
              total_slots |-> classes[class_id].total_slots ])
  ELSE None

RECURSIVE InsertDesc(_, _)
\* insert row r into a sequence sorted by booking_date descending
InsertDesc(r, s) ==
  IF s = << >> THEN << r >>
  ELSE IF r.booking_date > Head(s).booking_date THEN << r >> \o s
  ELSE << Head(s) >> \o InsertDesc(r, Tail(s))

RECURSIVE SortDesc(_)
SortDesc(s) == IF s = << >> THEN << >> ELSE InsertDesc(Head(s), SortDesc(Tail(s)))

RECURSIVE JoinByEmail(_, _)
\* the rows of bookings JOIN classes with the given email, in rowid order
JoinByEmail(rows, email) ==
  IF rows = << >> THEN << >>
  ELSE LET b == Head(rows)
           rest == JoinByEmail(Tail(rows), email)
       IN IF b.client_email = email /\ b.class_id \in DOMAIN classes
          THEN << [ id |-> b.id, class_name |-> classes[b.class_id].name,
                    client_name |-> b.client_name, client_email |-> b.client_email,
                    booking_date |-> b.booking_date ] >> \o rest
          ELSE rest

\* Database.get_bookings_by_email
DbGetBookingsByEmail(email) == SortDesc(JoinByEmail(bookings, email))

RECURSIVE OrderByDateTime(_)
\* the rows of the classes with the given ids, ORDER BY date_time
OrderByDateTime(ids) ==
  IF ids = {} THEN << >>
  ELSE LET c == CHOOSE c \in ids :
                  \A d \in ids :
                     \/ classes[c].date_time < classes[d].date_time
                     \/ classes[c].date_time = classes[d].date_time /\ c <= d
       IN << Val(DbGetClassById(c)) >> \o OrderByDateTime(ids \ {c})

\* Database.get_all_classes: WHERE datetime(date_time) > datetime('now')
DbGetAllClasses ==
  OrderByDateTime({ c \in DOMAIN classes : classes[c].date_time > now })

\* mutant: the SELECT lacks "AND available_slots > 0"
SelectClassForBooking_NoSlotCheck(class_id) ==
  IF class_id \in DOMAIN classes
  THEN Some([ name |-> classes[class_id].name,
              date_time |-> classes[class_id].date_time,
              available_slots |-> classes[class_id].available_slots ])
  ELSE None

\* the first SELECT of Database.create_booking
SelectClassForBooking(class_id) ==
  IF class_id \in DOMAIN classes /\ classes[class_id].available_slots > 0
  THEN Some([ name |-> classes[class_id].name,
              date_time |-> classes[class_id].date_time,
              available_slots |-> classes[class_id].available_slots ])
  ELSE None

\* the second SELECT of Database.create_booking
SelectExistingBooking(class_id, client_email) ==
  \E i \in 1..Len(bookings) :
     bookings[i].class_id = class_id /\ bookings[i].client_email = client_email

\* ----------------------------------------------------------- services.py
\* BookingService.get_class_by_id
SvcGetClassById(class_id) ==
  LET class_data_ == DbGetClassById(class_id)
  IN IF IsNone(class_data_) THEN None
     ELSE IF ~is_future_class(Val(class_data_).date_time, now) THEN None
     ELSE class_data_

\* mutant: every class of the table is listed
SvcGetAllClasses_Unfiltered == OrderByDateTime(DOMAIN classes)

\* BookingService.get_all_classes: the rows of the database that
\* is_future_class lets through
SvcGetAllClasses ==
  LET IsFuture(class_data_) == is_future_class(class_data_.date_time, now)
  IN SelectSeq(DbGetAllClasses, IsFuture)

RECURSIVE Sum(_)
\* sum(...) over a sequence of numbers
Sum(s) == IF s = << >> THEN 0 ELSE Head(s) + Sum(Tail(s))

\* round(numerator / denominator * 100, 2), in hundredths of a percent: the
\* nearest hundredth, a tie going to the even one
RoundedPercentage(numerator, denominator) ==
  LET scaled == numerator * 10000
      q == scaled \div denominator
      r == scaled % denominator
  IN IF 2 * r < denominator THEN q
     ELSE IF 2 * r > denominator THEN q + 1
     ELSE IF q % 2 = 0 THEN q ELSE q + 1

\* mutant: booked_slots is the number of rows of the bookings table
StatisticsOf_CountsAllRows(all_classes) ==
  LET total_slots == Sum([ i \in 1..Len(all_classes) |-> all_classes[i].total_slots ])
      available_slots ==
        Sum([ i \in 1..Len(all_classes) |-> all_classes[i].available_slots ])
      booked_slots == Len(bookings)
  IN [ total_classes |-> Len(all_classes),
       total_slots |-> total_slots,
       available_slots |-> available_slots,
       booked_slots |-> booked_slots,
       booking_percentage |->
         IF total_slots > 0 THEN RoundedPercentage(booked_slots, total_slots)
         ELSE 0 ]

\* BookingService.get_booking_statistics over the listed classes;
\* booking_percentage is in hundredths of a percent (5714 for 57.14)
StatisticsOf(all_classes) ==
  LET total_slots == Sum([ i \in 1..Len(all_classes) |-> all_classes[i].total_slots ])
      available_slots ==
        Sum([ i \in 1..Len(all_classes) |-> all_classes[i].available_slots ])
      booked_slots == total_slots - available_slots
  IN [ total_classes |-> Len(all_classes),
       total_slots |-> total_slots,
       available_slots |-> available_slots,
       booked_slots |-> booked_slots,
       booking_percentage |->
         IF total_slots > 0 THEN RoundedPercentage(booked_slots, total_slots)
         ELSE 0 ]

\* BookingService.get_booking_statistics
get_booking_statistics == StatisticsOf(SvcGetAllClasses)

\* mutant: the method always takes its except branch and returns []
SvcGetBookingsByEmail_Empty(email) == << >>

\* BookingService.get_bookings_by_email
SvcGetBookingsByEmail(email) == DbGetBookingsByEmail(email)

\* the duplicate loop of validate_booking_request
ValidateHasDuplicate(existing_bookings, fc) ==
  \E i \in 1..Len(existing_bookings) :
     /\ existing_bookings[i].class_name = fc.name
     /\ existing_bookings[i].booking_date = fc.date_time

\* mutant: no try/except around the body, an exception leaves the method
SvcAfterDb_Propagates(dbo, fc, rq) ==
  IF dbo.kind = "raised" THEN [ kind |-> "raised", value |-> None ]
  ELSE IF IsNone(dbo.value) \/ Val(dbo.value) = 0
       THEN [ kind |-> "returned", value |-> None ]
  ELSE [ kind |-> "returned",
         value |-> Some([ booking_id |-> Val(dbo.value),
                          class_name |-> fc.name,
                          client_name |-> rq.client_name,
                          client_email |-> rq.client_email,
                          booking_date |-> fc.date_time,
                          message |-> MsgSuccess ]) ]

\* BookingService.create_booking after db.create_booking came back (lines
\* 97-119): an exception is caught and gives None, a falsy booking id gives
\* None, anything else the BookingResponse built from the service's snapshot.
SvcAfterDb(dbo, fc, rq) ==
  IF dbo.kind = "raised" THEN [ kind |-> "returned", value |-> None ]
  ELSE IF IsNone(dbo.value) \/ Val(dbo.value) = 0
       THEN [ kind |-> "returned", value |-> None ]
  ELSE [ kind |-> "returned",
         value |-> Some([ booking_id |-> Val(dbo.value),
                          class_name |-> fc.name,
                          client_name |-> rq.client_name,
                          client_email |-> rq.client_email,
                          booking_date |-> fc.date_time,
                          message |-> MsgSuccess ]) ]

\* -------------------------------------------------------------- main.py
\* book_class after BookingService.create_booking came back (lines 75-85)
MainAfterSvc(svo) ==
  IF svo.kind = "raised" THEN [ status |-> 500, detail |-> MsgInternal, body |-> None ]
  ELSE IF IsNone(svo.value) THEN [ status |-> 400, detail |-> MsgFailed, body |-> None ]
  ELSE [ status |-> 200, detail |-> "", body |-> svo.value ]

\* book_class when validate_booking_request returned (False, message)
MainRejected(message) == [ status |-> 400, detail |-> message, body |-> None ]

\* ------------------------------------------------------ request plumbing
\* the caller's request is over with the given outcomes; its frames are gone
Finish(p, dbo, svo, ht) ==
  /\ pc' = [pc EXCEPT ![p] = "done"]
  /\ dbret' = [dbret EXCEPT ![p] = dbo]
  /\ svcret' = [svcret EXCEPT ![p] = svo]
  /\ http' = [http EXCEPT ![p] = ht]
  /\ fitness_class' = [fitness_class EXCEPT ![p] = None]
  /\ class_data' = [class_data EXCEPT ![p] = None]

\* BookingService.create_booking returns svo
SvcReturn(p, dbo, svo) ==
  Finish(p, dbo, svo, IF req[p].entry = "book" THEN MainAfterSvc(svo) ELSE NoHttp)

\* Database.create_booking returns (or raises) dbo
DbReturn(p, dbo) ==
  IF req[p].entry = "db"
  THEN Finish(p, dbo, NoOutcome, NoHttp)
  ELSE SvcReturn(p, dbo, SvcAfterDb(dbo, Val(fitness_class[p]), req[p]))

FirstPc(entry) ==
  CASE entry = "book" -> "val_class"
    [] entry = "svc" -> "svc_class"
    [] entry = "db" -> "db_class"

\* the answer to a request body that fails the BookingRequest validators
\* (FastAPI's 422 Unprocessable Entity)
MsgInvalid == "Invalid request data"
InvalidInput == [ status |-> 422, detail |-> MsgInvalid, body |-> None ]

\* a caller submits the raw fields of a request through entry point e: the
\* BookingRequest is built first, and only a valid one reaches the entry point
Submit(p, e, raw) ==
  /\ pc[p] = "idle"
  /\ started < MaxRequests
  /\ started' = started + 1
  /\ LET br == NewBookingRequest(raw)
     IN IF IsNone(br)
        THEN /\ req' = [req EXCEPT ![p] = [ entry |-> e, class_id |-> 0,
                                            client_name |-> "",
                                            client_email |-> "",
                                            raw |-> raw ]]
             /\ pc' = [pc EXCEPT ![p] = "done"]
             /\ http' = [http EXCEPT ![p] =
                           IF e = "book" THEN InvalidInput ELSE NoHttp]
        ELSE /\ req' = [req EXCEPT ![p] = [ entry |-> e,
                                            class_id |-> Val(br).class_id,
                                            client_name |-> Val(br).client_name,
                                            client_email |-> Val(br).client_email,
                                            raw |-> raw ]]
             /\ pc' = [pc EXCEPT ![p] = FirstPc(e)]
             /\ UNCHANGED http
  /\ UNCHANGED << classes, bookings, lock, now, fitness_class, class_data,
                  booking_id, txn, dberr, dbret, svcret >>

\* a caller issues a well-formed request
Start(p) ==
  \E e \in Entries, c \in RequestIds, n \in ClientNames, m \in Emails :
     Submit(p, e, [ class_id |-> c, client_name |-> n, client_email |-> m ])

\* the caller has its answer and is ready for the next request
Reply(p) ==
  /\ pc[p] = "done"
  /\ pc' = [pc EXCEPT ![p] = "idle"]
  /\ req' = [req EXCEPT ![p] = NoReq]
  /\ dberr' = [dberr EXCEPT ![p] = FALSE]
  /\ dbret' = [dbret EXCEPT ![p] = NoOutcome]
  /\ svcret' = [svcret EXCEPT ![p] = NoOutcome]
  /\ http' = [http EXCEPT ![p] = NoHttp]
  /\ booking_id' = [booking_id EXCEPT ![p] = None]
  /\ UNCHANGED << classes, bookings, lock, now, started, fitness_class,
                  class_data, txn >>

\* time passes
Tick ==
  /\ now < MaxNow
  /\ now' = now + 1
  /\ UNCHANGED << classes, bookings, lock, started, pc, req, fitness_class,
                  class_data, booking_id, txn, dberr, dbret, svcret, http >>

\* ------------------------------------- validate_booking_request (steps)
\* mutant: the duplicate check comes before the slot check
ValClass_SlotsLast(p) ==
  /\ pc[p] = "val_class"
  /\ LET fc == SvcGetClassById(req[p].class_id)
     IN IF IsNone(fc)
        THEN Finish(p, NoOutcome, NoOutcome, MainRejected(MsgNotFound))
        ELSE IF ValidateHasDuplicate(
                  SvcGetBookingsByEmail(req[p].client_email), Val(fc))
        THEN Finish(p, NoOutcome, NoOutcome, MainRejected(MsgDuplicate))
        ELSE IF Val(fc).available_slots <= 0
        THEN Finish(p, NoOutcome, NoOutcome, MainRejected(MsgNoSlots))
        ELSE /\ fitness_class' = [fitness_class EXCEPT ![p] = fc]
             /\ pc' = [pc EXCEPT ![p] = "val_dups"]
             /\ UNCHANGED << class_data, dbret, svcret, http >>
  /\ UNCHANGED << classes, bookings, lock, now, started, req, txn, dberr,
                  booking_id >>

\* lines 151-157: the class lookup and the slot check
ValClass(p) ==
  /\ pc[p] = "val_class"
  /\ LET fc == SvcGetClassById(req[p].class_id)
     IN IF IsNone(fc)
        THEN Finish(p, NoOutcome, NoOutcome, MainRejected(MsgNotFound))
        ELSE IF Val(fc).available_slots <= 0
        THEN Finish(p, NoOutcome, NoOutcome, MainRejected(MsgNoSlots))
        ELSE /\ fitness_class' = [fitness_class EXCEPT ![p] = fc]
             /\ pc' = [pc EXCEPT ![p] = "val_dups"]
             /\ UNCHANGED << class_data, dbret, svcret, http >>
  /\ UNCHANGED << classes, bookings, lock, now, started, req, txn, dberr,
                  booking_id >>

\* mutant: a request that passes validate takes its slot at once
ValDups_TakesSlot(p) ==
  /\ pc[p] = "val_dups"
  /\ IF ValidateHasDuplicate(SvcGetBookingsByEmail(req[p].client_email),
                             Val(fitness_class[p]))
     THEN /\ Finish(p, NoOutcome, NoOutcome, MainRejected(MsgDuplicate))
          /\ UNCHANGED classes
     ELSE /\ pc' = [pc EXCEPT ![p] = "svc_class"]
          /\ fitness_class' = [fitness_class EXCEPT ![p] = None]
          /\ classes' = [classes EXCEPT ![req[p].class_id].available_slots = @ - 1]
          /\ UNCHANGED << class_data, dbret, svcret, http >>
  /\ UNCHANGED << bookings, lock, now, started, req, txn, dberr, booking_id >>

\* lines 160-165: the duplicate check; on success book_class goes on to
\* BookingService.create_booking
ValDups(p) ==
  /\ pc[p] = "val_dups"
  /\ IF ValidateHasDuplicate(SvcGetBookingsByEmail(req[p].client_email),
                             Val(fitness_class[p]))
     THEN Finish(p, NoOutcome, NoOutcome, MainRejected(MsgDuplicate))
     ELSE /\ pc' = [pc EXCEPT ![p] = "svc_class"]
          /\ fitness_class' = [fitness_class EXCEPT ![p] = None]
          /\ UNCHANGED << class_data, dbret, svcret, http >>
  /\ UNCHANGED << classes, bookings, lock, now, started, req, txn, dberr,
                  booking_id >>

\* mutant: the slot check of create_booking refuses the last slot
SvcClass_KeepsLastSlot(p) ==
  /\ pc[p] = "svc_class"
  /\ LET fc == SvcGetClassById(req[p].class_id)
     IN IF IsNone(fc) \/ (~IsNone(fc) /\ Val(fc).available_slots <= 1)
        THEN SvcReturn(p, NoOutcome, [ kind |-> "returned", value |-> None ])
        ELSE /\ fitness_class' = [fitness_class EXCEPT ![p] = fc]
             /\ pc' = [pc EXCEPT ![p] = "db_class"]
             /\ UNCHANGED << class_data, dbret, svcret, http >>
  /\ UNCHANGED << classes, bookings, lock, now, started, req, txn, dberr,
                  booking_id >>

\* ------------------------------ BookingService.create_booking (steps)
\* lines 79-87: the class lookup and the slot check
SvcClass(p) ==
  /\ pc[p] = "svc_class"
  /\ LET fc == SvcGetClassById(req[p].class_id)
     IN IF IsNone(fc) \/ (~IsNone(fc) /\ Val(fc).available_slots <= 0)
        THEN SvcReturn(p, NoOutcome, [ kind |-> "returned", value |-> None ])
        ELSE /\ fitness_class' = [fitness_class EXCEPT ![p] = fc]
             /\ pc' = [pc EXCEPT ![p] = "db_class"]
             /\ UNCHANGED << class_data, dbret, svcret, http >>
  /\ UNCHANGED << classes, bookings, lock, now, started, req, txn, dberr,
                  booking_id >>

\* ---------------------------------- Database.create_booking (steps)
DbPcs == {"db_class", "db_dups", "db_insert", "db_update", "db_commit"}

Returned(v) == [ kind |-> "returned", value |-> v ]
Raised == [ kind |-> "raised", value |-> None ]

\* conn.close() / conn.rollback(): the connection's uncommitted writes are
\* dropped and its write lock, if it holds it, is released
ReleaseLock(p) == IF lock = Some(p) THEN None ELSE lock

\* lines 183-192: the class must exist and have a free slot
DbClass(p) ==
  /\ pc[p] = "db_class"
  /\ LET cd == SelectClassForBooking(req[p].class_id)
     IN IF IsNone(cd)
        THEN DbReturn(p, Returned(None))
        ELSE /\ class_data' = [class_data EXCEPT ![p] = cd]
             /\ pc' = [pc EXCEPT ![p] = "db_dups"]
             /\ UNCHANGED << fitness_class, dbret, svcret, http >>
  /\ UNCHANGED << classes, bookings, lock, now, started, req, txn, dberr,
                  booking_id >>

\* lines 195-202: the client must not hold a booking of the class
DbDups(p) ==
  /\ pc[p] = "db_dups"
  /\ IF SelectExistingBooking(req[p].class_id, req[p].client_email)
     THEN DbReturn(p, Returned(None))
     ELSE /\ pc' = [pc EXCEPT ![p] = "db_insert"]
          /\ UNCHANGED << fitness_class, class_data, dbret, svcret, http >>
  /\ UNCHANGED << classes, bookings, lock, now, started, req, txn, dberr,
                  booking_id >>

\* mutant: the ids of the bookings table start at 0
NewBookingRow_ZeroBased(p) ==
  [ id |-> Len(bookings),
    class_id |-> req[p].class_id,
    client_name |-> req[p].client_name,
    client_email |-> req[p].client_email,
    booking_date |-> Val(class_data[p]).date_time ]

\* mutant: booking_date is the time of the booking
NewBookingRow_BookedNow(p) ==
  [ id |-> Len(bookings) + 1,
    class_id |-> req[p].class_id,
    client_name |-> req[p].client_name,
    client_email |-> req[p].client_email,
    booking_date |-> now ]

\* the row the INSERT of lines 205-208 writes; AUTOINCREMENT gives it the
\* next rowid of the table as the connection sees it
NewBookingRow(p) ==
  [ id |-> Len(bookings) + 1,
    class_id |-> req[p].class_id,
    client_name |-> req[p].client_name,
    client_email |-> req[p].client_email,
    booking_date |-> Val(class_data[p]).date_time ]

\* mutant: the connection is in autocommit mode, the INSERT is committed at once
DbInsert_Autocommit(p) ==
  /\ pc[p] = "db_insert"
  /\ lock = None
  /\ bookings' = Append(bookings, NewBookingRow(p))
  /\ booking_id' = [booking_id EXCEPT ![p] = Some(NewBookingRow(p).id)]
  /\ pc' = [pc EXCEPT ![p] = "db_update"]
  /\ UNCHANGED << classes, lock, txn, now, started, req, fitness_class,
                  class_data, dberr, dbret, svcret, http >>

\* lines 205-210: the INSERT opens the connection's transaction and takes the
\* write lock (it waits while another connection holds it)
DbInsert(p) ==
  /\ pc[p] = "db_insert"
  /\ lock = None
  /\ lock' = Some(p)
  /\ txn' = [txn EXCEPT ![p].row = Some(NewBookingRow(p))]
  /\ booking_id' = [booking_id EXCEPT ![p] = Some(NewBookingRow(p).id)]
  /\ pc' = [pc EXCEPT ![p] = "db_update"]
  /\ UNCHANGED << classes, bookings, now, started, req, fitness_class,
                  class_data, dberr, dbret, svcret, http >>

\* mutant: the UPDATE is missing
DbUpdate_Skip(p) ==
  /\ pc[p] = "db_update"
  /\ pc' = [pc EXCEPT ![p] = "db_commit"]
  /\ UNCHANGED << classes, bookings, lock, now, started, req, fitness_class,
                  class_data, booking_id, txn, dberr, dbret, svcret, http >>

\* lines 213-217: UPDATE classes SET available_slots = available_slots - 1,
\* computed from the row as the connection sees it
DbUpdate(p) ==
  /\ pc[p] = "db_update"
  /\ txn' = [txn EXCEPT ![p].dec =
               IF req[p].class_id \in DOMAIN classes
               THEN Some([ id |-> req[p].class_id,
                           available_slots |->
                             classes[req[p].class_id].available_slots - 1 ])
               ELSE None]
  /\ pc' = [pc EXCEPT ![p] = "db_commit"]
  /\ UNCHANGED << classes, bookings, lock, now, started, req, fitness_class,
                  class_data, booking_id, dberr, dbret, svcret, http >>

\* the tables after the connection's writes are committed
CommittedBookings(t) ==
  IF IsNone(t.row) THEN bookings ELSE Append(bookings, Val(t.row))

\* mutant: the UPDATE has no WHERE clause, it takes a slot from every class
CommittedClasses_EveryRow(t) ==
  IF IsNone(t.dec) THEN classes
  ELSE [c \in DOMAIN classes |->
          [classes[c] EXCEPT !.available_slots = @ - 1]]

CommittedClasses(t) ==
  IF IsNone(t.dec) THEN classes
  ELSE [classes EXCEPT ![Val(t.dec).id].available_slots = Val(t.dec).available_slots]

\* lines 219-221: commit, close, return the booking id
DbCommit(p) ==
  /\ pc[p] = "db_commit"
  /\ bookings' = CommittedBookings(txn[p])
  /\ classes' = CommittedClasses(txn[p])
  /\ txn' = [txn EXCEPT ![p] = NoTxn]
  /\ lock' = ReleaseLock(p)
  /\ DbReturn(p, Returned(booking_id[p]))
  /\ UNCHANGED << now, started, req, dberr, booking_id >>

\* mutant: the handler rolls back and runs the method again from its first
\* statement instead of returning None
DbFault_RetryForever(p) ==
  /\ pc[p] \in DbPcs
  /\ dberr' = [dberr EXCEPT ![p] = TRUE]
  /\ txn' = [txn EXCEPT ![p] = NoTxn]
  /\ lock' = ReleaseLock(p)
  /\ pc' = [pc EXCEPT ![p] = "db_class"]
  /\ class_data' = [class_data EXCEPT ![p] = None]
  /\ booking_id' = [booking_id EXCEPT ![p] = None]
  /\ UNCHANGED << classes, bookings, now, started, req, fitness_class,
                  dbret, svcret, http >>

\* mutant: the handler commits what the transaction has written so far
\* instead of rolling it back
DbFault_NoRollback(p) ==
  /\ pc[p] \in DbPcs
  /\ dberr' = [dberr EXCEPT ![p] = TRUE]
  /\ bookings' = CommittedBookings(txn[p])
  /\ classes' = CommittedClasses(txn[p])
  /\ txn' = [txn EXCEPT ![p] = NoTxn]
  /\ lock' = ReleaseLock(p)
  /\ DbReturn(p, Returned(None))
  /\ UNCHANGED << now, started, req, booking_id >>

\* lines 223-227: a statement or the commit fails (a storage fault, or the
\* wait for the write lock times out); the handler logs, rolls back, closes
\* and returns None
DbFault(p) ==
  /\ pc[p] \in DbPcs
  /\ dberr' = [dberr EXCEPT ![p] = TRUE]
  /\ txn' = [txn EXCEPT ![p] = NoTxn]
  /\ lock' = ReleaseLock(p)
  /\ DbReturn(p, Returned(None))
  /\ UNCHANGED << classes, bookings, now, started, req, booking_id >>

\* lines 178-179: the connection cannot be opened; this is outside the try
\* block, so the exception leaves Database.create_booking
DbRaise(p) ==
  /\ pc[p] = "db_class"
  /\ DbReturn(p, Raised)
  /\ UNCHANGED << classes, bookings, lock, now, started, req, txn, dberr,
                  booking_id >>

Step(p) ==
  \/ ValClass(p)
  \/ ValDups(p)
  \/ SvcClass(p)
  \/ DbClass(p)
  \/ DbDups(p)
  \/ DbInsert(p)
  \/ DbUpdate(p)
  \/ DbCommit(p)
  \/ DbFault(p)
  \/ DbRaise(p)
  \/ Reply(p)

Next ==
  \/ \E p \in Callers : Start(p)
  \/ \E p \in Callers : Step(p)
  \/ Tick

Spec == Init /\ [][Next]_vars

\* The same program with its requests issued one after the other: a request
\* starts only when no other request is under way.
SeqStart(p) ==
  /\ \A q \in Callers : pc[q] \in {"idle", "done"}
  /\ Start(p)

SeqNext ==
  \/ \E p \in Callers : SeqStart(p)
  \/ \E p \in Callers : Step(p)
  \/ Tick

SeqSpec == Init /\ [][SeqNext]_vars

\* ------------------------------------------------------- read requests
\* a request that only reads is answered in one step with the given body
Answer(p, entry, body) ==
  /\ pc[p] = "idle"
  /\ pc' = [pc EXCEPT ![p] = "done"]
  /\ req' = [req EXCEPT ![p] = [NoReq EXCEPT !.entry = entry]]
  /\ http' = [http EXCEPT ![p] = [ status |-> 200, detail |-> "",
                                   body |-> Some(body) ]]
  /\ UNCHANGED << classes, bookings, lock, now, started, fitness_class,
                  class_data, booking_id, txn, dberr, dbret, svcret >>

\* GET /classes
GetClasses(p) == Answer(p, "classes", SvcGetAllClasses)

\* GET /stats
GetStats(p) == Answer(p, "stats", get_booking_statistics)

\* the details of main.get_class_by_id and main.get_bookings
MsgInvalidClassId == "Invalid class ID"
MsgClassNotFound == "Class not found"
MsgEmailRequired == "Valid email address is required"

\* BookingService.get_class_by_id: the class, or None also when the lookup
\* raises (lines 70-72)
SvcGetClassByIdOutcome(class_id, fault) ==
  IF fault THEN None ELSE SvcGetClassById(class_id)

\* main.get_class_by_id on what the service returned (lines 134-142); the
\* service is not called for a class id that is not positive
MainGetClass(class_id, fc) ==
  IF class_id <= 0
  THEN [ status |-> 400, detail |-> MsgInvalidClassId, body |-> None ]
  ELSE IF IsNone(fc)
  THEN [ status |-> 404, detail |-> MsgClassNotFound, body |-> None ]
  ELSE [ status |-> 200, detail |-> "", body |-> fc ]

\* GET /classes/{class_id}, answered in one step; fault: the lookup raises
GetClass(p) ==
  \E class_id \in RawClassIds :
    \E fault \in IF class_id > 0 THEN BOOLEAN ELSE {FALSE} :
       LET fc == SvcGetClassByIdOutcome(class_id, fault)
       IN /\ pc[p] = "idle"
          /\ pc' = [pc EXCEPT ![p] = "done"]
          /\ req' = [req EXCEPT ![p] = [NoReq EXCEPT !.entry = "class",
                                                     !.class_id = class_id]]
          /\ dberr' = [dberr EXCEPT ![p] = fault]
          /\ svcret' = [svcret EXCEPT ![p] =
                          IF class_id > 0
                          THEN [ kind |-> "returned", value |-> fc ]
                          ELSE NoOutcome]
          /\ http' = [http EXCEPT ![p] = MainGetClass(class_id, fc)]
          /\ UNCHANGED << classes, bookings, lock, now, started,
                          fitness_class, class_data, booking_id, txn, dbret >>

\* main.get_bookings, line 96: "@" in email
HasAt(email) == \E i \in 1..Len(Chars(email)) : Chars(email)[i] = "@"

\* BookingService.get_bookings_by_email: the bookings, or [] when the query
\* raises (lines 142-144)
SvcGetBookingsByEmailOutcome(email, fault) ==
  IF fault THEN << >> ELSE SvcGetBookingsByEmail(email)

\* main.get_bookings (lines 95-100)
MainGetBookings(email, history) ==
  IF ~HasAt(email)
  THEN [ status |-> 400, detail |-> MsgEmailRequired, body |-> None ]
  ELSE [ status |-> 200, detail |-> "", body |-> Some(history) ]

\* GET /bookings?email=..., answered in one step; fault: the query raises
GetBookings(p) ==
  \E email \in Emails \cup {InvalidEmail} :
    \E fault \in IF HasAt(email) THEN BOOLEAN ELSE {FALSE} :
       LET history == SvcGetBookingsByEmailOutcome(email, fault)
       IN /\ pc[p] = "idle"
          /\ pc' = [pc EXCEPT ![p] = "done"]
          /\ req' = [req EXCEPT ![p] = [NoReq EXCEPT !.entry = "bookings",
                                                     !.client_email = email]]
          /\ dberr' = [dberr EXCEPT ![p] = fault]
          /\ svcret' = [svcret EXCEPT ![p] =
                          IF HasAt(email)
                          THEN [ kind |-> "returned", value |-> Some(history) ]
                          ELSE NoOutcome]
          /\ http' = [http EXCEPT ![p] = MainGetBookings(email, history)]
          /\ UNCHANGED << classes, bookings, lock, now, started,
                          fitness_class, class_data, booking_id, txn, dbret >>

\* POST /book with a well-formed body
PostBook(p) ==
  \E c \in RequestIds, n \in ClientNames, m \in Emails :
     Submit(p, "book", [ class_id |-> c, client_name |-> n, client_email |-> m ])

\* the clients of the HTTP API: bookings and reads, interleaved
ApiNext ==
  \/ \E p \in Callers : PostBook(p)
  \/ \E p \in Callers : Step(p)
  \/ \E p \in Callers : GetClasses(p)
  \/ \E p \in Callers : GetStats(p)
  \/ Tick

ApiSpec == Init /\ [][ApiNext]_vars

\* every endpoint of the HTTP API, interleaved
ReadNext ==
  \/ \E p \in Callers : PostBook(p)
  \/ \E p \in Callers : Step(p)
  \/ \E p \in Callers : GetClasses(p)
  \/ \E p \in Callers : GetClass(p)
  \/ \E p \in Callers : GetBookings(p)
  \/ \E p \in Callers : GetStats(p)
  \/ Tick

ReadSpec == Init /\ [][ReadNext]_vars

\* the booking requests of the HTTP API alone
BookNext ==
  \/ \E p \in Callers : PostBook(p)
  \/ \E p \in Callers : Step(p)
  \/ Tick

\* Every request runs in a thread (or process) of its own that the operating
\* system keeps scheduling: a caller whose request has a step to take
\* eventually takes one. A wait for the write lock ends when the lock is
\* released or, after the connection's busy timeout, with the fault of
\* DbFault, so a step is always there to take.
FairSpec ==
  Init /\ [][BookNext]_vars /\ \A p \in Callers : WF_vars(Step(p))

\* ------------------------------------------------ arbitrary request bodies
\* a client posts a request body to /book, one request after the other
StartInput(p) ==
  /\ \A q \in Callers : pc[q] \in {"idle", "done"}
  /\ \E c \in RawClassIds, n \in RawNames, m \in RawEmails :
       Submit(p, "book",
              [ class_id |-> c, client_name |-> n, client_email |-> m ])

InputNext ==
  \/ \E p \in Callers : StartInput(p)
  \/ \E p \in Callers : Step(p)
  \/ Tick

InputSpec == Init /\ [][InputNext]_vars

\* ---------------------------------------------- a store found at start-up
\* The database file outlives the process: Database.__init__ creates the
\* tables only if they do not exist and seed_data inserts the sample classes
\* only into an empty classes table, so the program also starts on a store
\* filled earlier.
StoreInit(cls, rows) ==
  /\ classes = cls
  /\ bookings = rows
  /\ lock = None
  /\ now = 0
  /\ started = 0
  /\ pc = [p \in Callers |-> "idle"]
  /\ req = [p \in Callers |-> NoReq]
  /\ fitness_class = [p \in Callers |-> None]
  /\ class_data = [p \in Callers |-> None]
  /\ booking_id = [p \in Callers |-> None]
  /\ txn = [p \in Callers |-> NoTxn]
  /\ dberr = [p \in Callers |-> FALSE]
  /\ dbret = [p \in Callers |-> NoOutcome]
  /\ svcret = [p \in Callers |-> NoOutcome]
  /\ http = [p \in Callers |-> NoHttp]

\* a classes table in which every row has the same name and start time (the
\* schema puts no uniqueness on them): the same class given in parallel
\* sessions
TwinClasses ==
  [c \in ClassIds |-> [ SeedClass(c, SeedSlots(c)) EXCEPT
                          !.name = SeedNames[1], !.date_time = NumClasses ]]

TwinInit == StoreInit(TwinClasses, << >>)

TwinSpec == TwinInit /\ [][Next]_vars

\* the seeded store after earlier bookings: the first class is fully booked
\* (its last slot went to john@example.com) and jane@example.com holds a booking
\* of the last class
ResumeClasses ==
  [c \in ClassIds |->
     [ SeedClass(c, SeedSlots(c)) EXCEPT
         !.available_slots = IF c = 1 \/ c = NumClasses THEN @ - 1 ELSE @ ]]

ResumeBookings ==
  << [ id |-> 1, class_id |-> 1, client_name |-> JohnDoe,
       client_email |-> JohnEmail, booking_date |-> SeedClass(1, 1).date_time ],
     [ id |-> 2, class_id |-> NumClasses, client_name |-> JohnDoe,
       client_email |-> JaneEmail,
       booking_date |-> SeedClass(NumClasses, 1).date_time ] >>

ResumeInit == StoreInit(ResumeClasses, ResumeBookings)

ResumeSpec == ResumeInit /\ [][Next]_vars

\* the clients of the HTTP API on that store
ResumeApiSpec == ResumeInit /\ [][ApiNext]_vars

\* ====================================================================
\* Properties
\* ====================================================================
\* the committed Booking rows of class c
RowsOfClass(c) == { i \in 1..Len(bookings) : bookings[i].class_id = c }

\* caller p has finished a request of the given entry point
DoneWith(p, entry) == pc[p] = "done" /\ req[p].entry = entry

\* caller p's Database.create_booking commits in this step
CommitStep(p) ==
  /\ pc[p] = "db_commit"
  /\ pc'[p] = "done"
  /\ dbret'[p].kind = "returned"
  /\ ~IsNone(dbret'[p].value)

\* caller p's Database.create_booking ends in this step without a commit
AbortStep(p) ==
  /\ pc[p] \in DbPcs
  /\ pc'[p] = "done"
  /\ ~CommitStep(p)

\* C1: with concurrent callers booking the same class, no reachable state has
\* available_slots < 0 for any class.
C1_SlotsNeverNegative ==
  \A c \in ClassIds : classes[c].available_slots >= 0

\* C2: for every (class_id, client_email) pair at most one Booking row exists
\* in every reachable state, concurrent attempts included.
C2_NoDoubleBooking ==
  \A i, j \in 1..Len(bookings) :
     (bookings[i].class_id = bookings[j].class_id
      /\ bookings[i].client_email = bookings[j].client_email) => i = j

\* C3: for every class 0 <= available_slots <= total_slots after any sequence
\* of booking attempts issued one after the other, successful or rejected,
\* starting from available_slots = total_slots.
C3_SlotsInRange ==
  \A c \in ClassIds :
     /\ 0 <= classes[c].available_slots
     /\ classes[c].available_slots <= classes[c].total_slots

\* C3 witness: a class is full and a later attempt for it has been rejected.
C3_Witness ==
  \E p \in Callers :
     /\ DoneWith(p, "db")
     /\ req[p].class_id \in ClassIds
     /\ classes[req[p].class_id].available_slots = 0
     /\ dbret[p] = Returned(None)
     /\ ~dberr[p]
     /\ ~SelectExistingBooking(req[p].class_id, req[p].client_email)

\* a caller has passed the first check of Database.create_booking and has not
\* yet committed or aborted
InUnit(p) == pc[p] \in {"db_dups", "db_insert", "db_update", "db_commit"}

\* C4: Database.create_booking is one atomic unit: between a caller's checks
\* and that caller's commit no other caller's create_booking changes the
\* tables.
C4_AtomicUnit ==
  [][ \A p \in Callers :
        (InUnit(p) /\ dbvars' # dbvars) => CommitStep(p) ]_vars

\* C5: for a future class with available_slots = 1 and two booking attempts by
\* two different emails, one after the other or concurrently, exactly one
\* succeeds and the other fails with "No available slots for this class"
\* (no storage fault involved).
C5_ExactlyOneSucceeds ==
  \A p, q \in Callers :
     ( /\ p # q
       /\ started = 2
       /\ DoneWith(p, "book") /\ DoneWith(q, "book")
       /\ req[p].class_id = req[q].class_id
       /\ req[p].class_id \in ClassIds
       /\ classes[req[p].class_id].total_slots = 1
       /\ is_future_class(classes[req[p].class_id].date_time, now)
       /\ req[p].client_email # req[q].client_email
       /\ ~dberr[p] /\ ~dberr[q]
       /\ dbret[p].kind # "raised" /\ dbret[q].kind # "raised" )
     => \/ http[p].status = 200 /\ http[q] = MainRejected(MsgNoSlots)
        \/ http[q].status = 200 /\ http[p] = MainRejected(MsgNoSlots)

\* C6: no partial booking is observable: in every state of the committed
\* tables (what every read sees) each class has exactly as many Booking rows
\* as slots taken off its counter.
C6_NoPartialBooking ==
  \A c \in ClassIds :
     classes[c].total_slots - classes[c].available_slots = Cardinality(RowsOfClass(c))

\* C6 witness: a connection holds an uncommitted insert while another caller
\* is about to read the tables.
C6_Witness ==
  \E p, q \in Callers :
     /\ p # q
     /\ pc[p] = "db_update"
     /\ ~IsNone(txn[p].row)
     /\ pc[q] \in {"val_class", "val_dups", "svc_class", "db_class", "db_dups"}
     /\ req[q].class_id = req[p].class_id
     /\ Len(bookings) < Val(txn[p].row).id

\* C7: a successful create_booking for class c and email e adds exactly one
\* Booking row (class_id = c, client_email = e), lowers available_slots of c
\* by exactly 1, and returns the new booking id, the service adding c's name
\* and start time.
C7_SuccessEffect ==
  [][ \A p \in Callers :
        CommitStep(p) =>
          LET c == req[p].class_id
              id == Val(dbret'[p].value)
              last == bookings'[Len(bookings')]
          IN /\ Len(bookings') = Len(bookings) + 1
             /\ SubSeq(bookings', 1, Len(bookings)) = bookings
             /\ last.class_id = c
             /\ last.client_email = req[p].client_email
             /\ last.id = id
             /\ classes'[c].available_slots = classes[c].available_slots - 1
             /\ \A d \in ClassIds \ {c} : classes'[d] = classes[d]
             /\ req[p].entry # "db" =>
                  /\ svcret'[p].kind = "returned"
                  /\ ~IsNone(svcret'[p].value)
                  /\ Val(svcret'[p].value).booking_id = id
                  /\ Val(svcret'[p].value).class_name = classes[c].name
                  /\ Val(svcret'[p].value).booking_date = classes[c].date_time
             /\ req[p].entry = "book" =>
                  /\ http'[p].status = 200
                  /\ http'[p].body = svcret'[p].value ]_vars

\* C7 witness: a service call has returned the response of a committed booking.
C7_Witness ==
  \E p \in Callers :
     /\ DoneWith(p, "svc")
     /\ ~IsNone(svcret[p].value)
     /\ \E i \in 1..Len(bookings) :
          /\ bookings[i].id = Val(svcret[p].value).booking_id
          /\ bookings[i].class_id = req[p].class_id
          /\ bookings[i].client_email = req[p].client_email
     /\ classes[req[p].class_id].available_slots
          = classes[req[p].class_id].total_slots - 1

\* C8: whenever Database.create_booking aborts, because a re-check fails or
\* because a storage fault occurs at any point of the unit (also after the
\* insert and before the decrement), the step leaves the classes and bookings
\* tables as they are, nothing the connection wrote survives, and the call
\* returns None.
C8_AbortLeavesNoTrace ==
  [][ \A p \in Callers :
        AbortStep(p) =>
          /\ dbvars' = dbvars
          /\ txn'[p] = NoTxn
          /\ lock' # Some(p)
          /\ (dbret'[p].kind = "returned" \/ pc[p] # "db_class")
               => dbret'[p] = Returned(None) ]_vars

\* C8 witness: a call hit a storage fault after its INSERT; it has returned
\* None and the row it inserted is not in the table.
C8_Witness ==
  \E p \in Callers :
     /\ pc[p] = "done"
     /\ dberr[p]
     /\ dbret[p] = Returned(None)
     /\ ~IsNone(booking_id[p])
     /\ Len(bookings) < Val(booking_id[p])
     /\ txn[p] = NoTxn

\* C9: BookingService.create_booking never raises: on every failure it
\* returns None, and it returns a BookingResponse only when a booking was
\* committed.
C9_ServiceNeverRaises ==
  \A p \in Callers :
     (pc[p] = "done" /\ req[p].entry \in {"svc", "book"}) =>
        /\ svcret[p].kind # "raised"
        /\ req[p].entry = "svc" => svcret[p].kind = "returned"
        /\ svcret[p].kind = "pending" => (http[p].status = 400 /\ dbret[p] = NoOutcome)
        /\ (dbret[p].kind = "raised" \/ dbret[p] = Returned(None))
             => svcret[p] = Returned(None)
        /\ (svcret[p].kind = "returned" /\ ~IsNone(svcret[p].value)) =>
             /\ dbret[p] = Returned(Some(Val(svcret[p].value).booking_id))
             /\ \E i \in 1..Len(bookings) :
                  /\ bookings[i].id = Val(svcret[p].value).booking_id
                  /\ bookings[i].class_id = req[p].class_id
                  /\ bookings[i].client_email = req[p].client_email

\* C9 witness: Database.create_booking raised and the service returned None.
C9_Witness ==
  \E p \in Callers :
     /\ DoneWith(p, "svc")
     /\ dbret[p] = Raised
     /\ svcret[p] = Returned(None)

\* C10: a booking attempt for a class whose start time is not strictly in the
\* future is rejected with "Class not found or not available" and changes no
\* table, even when the class row exists and has free slots; the service
\* called directly returns None for it.
C10_PastClassRejected ==
  [][ \A p \in Callers :
        ( /\ pc'[p] # pc[p]
          /\ req[p].class_id \in ClassIds
          /\ classes[req[p].class_id].date_time <= now )
        => /\ pc[p] = "val_class" =>
                /\ pc'[p] = "done"
                /\ http'[p] = MainRejected(MsgNotFound)
                /\ dbvars' = dbvars
           /\ (pc[p] = "svc_class" /\ req[p].entry = "svc") =>
                /\ pc'[p] = "done"
                /\ svcret'[p] = Returned(None)
                /\ dbvars' = dbvars ]_vars

\* C10 witness: a request for an existing class with free slots that starts
\* right now has been rejected as not found.
C10_Witness ==
  \E p \in Callers :
     /\ DoneWith(p, "book")
     /\ req[p].class_id \in ClassIds
     /\ classes[req[p].class_id].available_slots > 0
     /\ classes[req[p].class_id].date_time = now
     /\ http[p] = MainRejected(MsgNotFound)

\* C11: no Booking is ever committed through the service's create for a class
\* whose start time is not strictly in the future at the moment of the commit.
C11_CommitOnlyFutureClass ==
  [][ \A p \in Callers :
        (CommitStep(p) /\ req[p].entry \in {"svc", "book"})
        => classes[req[p].class_id].date_time > now ]_vars

\* C13: a booking request answered with the generic "Failed to create booking.
\* Please try again." met a storage fault; every other rejection carries its
\* specific reason.
C13_GenericOnlyForStorageFault ==
  \A p \in Callers :
     (DoneWith(p, "book") /\ http[p] = MainRejected(MsgFailed)) => dberr[p]

\* C12: whenever validate reaches its duplicate check, the check finds a
\* duplicate if and only if a Booking row with the request's class_id and email
\* exists, as the storage-level check does; a booking of another class id does
\* not count, even with the same name and start time.
C12_CanonicalDuplicateRule ==
  \A p \in Callers :
     pc[p] = "val_dups"
     => ( ValidateHasDuplicate(SvcGetBookingsByEmail(req[p].client_email),
                               Val(fitness_class[p]))
          <=> \E i \in 1..Len(bookings) :
                 /\ bookings[i].class_id = req[p].class_id
                 /\ bookings[i].client_email = req[p].client_email )

\* the canonical conditions of a booking request of caller p, read from the
\* committed tables
ClassMissing(p) ==
  \/ req[p].class_id \notin ClassIds
  \/ classes[req[p].class_id].date_time <= now

ClassFull(p) == classes[req[p].class_id].available_slots <= 0

HoldsBooking(p) ==
  \E i \in 1..Len(bookings) :
     /\ bookings[i].class_id = req[p].class_id
     /\ bookings[i].client_email = req[p].client_email

\* caller p's validate_booking_request ends in this step with the message
ValidateFails(p, message) ==
  /\ pc'[p] = "done"
  /\ http'[p] = MainRejected(message)
  /\ dbvars' = dbvars

Full(c) == classes[c].available_slots <= 0

\* the client with email e holds a Booking row of class c
Holds(c, e) ==
  \E i \in 1..Len(bookings) :
     bookings[i].class_id = c /\ bookings[i].client_email = e

\* the reasons of kind Conflict
ConflictReasons == { MsgNoSlots, MsgDuplicate }

LowerCaseForms == { << s, LowerStr(s) >> : s \in RawEmails \cup Emails }

\* the lower-case form of email e
LowerCaseForm(e) == (CHOOSE entry \in LowerCaseForms : entry[1] = e)[2]

\* the rows of class c whose email is e up to letter case
RowsOfClient(c, e) ==
  { i \in RowsOfClass(c) :
      LowerCaseForm(bookings[i].client_email) = LowerCaseForm(e) }

\* caller p's request came through the BookingRequest validators
Accepted(p) ==
  req[p].entry # "none" /\ ~IsNone(NewBookingRequest(req[p].raw))

IsLocalDomainTld(s) ==
  EmailPatternMatches(s) /\ Chars(s)[Len(Chars(s))] \in Letters

\* the request body is invalid input: a name shorter than 2 characters after
\* trimming, an email that is not of the form local@domain.tld, or a class id
\* that is not positive
InvalidBody(raw) ==
  \/ Len(StripChars(Chars(raw.client_name))) < 2
  \/ ~IsLocalDomainTld(raw.client_email)
  \/ raw.class_id <= 0

\* C17: a request body that is invalid input is rejected at once: it never
\* reaches validate or create, it is answered 422, and the classes and
\* bookings tables stay as they are.
C17_InvalidInputRejected ==
  \A p \in Callers :
     (req[p].entry = "book" /\ InvalidBody(req[p].raw))
     => /\ pc[p] = "done"
        /\ http[p] = InvalidInput
        /\ svcret[p] = NoOutcome /\ dbret[p] = NoOutcome

\* caller p's read request of the given entry point is answered in this step
ReadStep(p, entry) ==
  pc[p] = "idle" /\ pc'[p] = "done" /\ req'[p].entry = entry

\* C18: listing the classes never returns a class whose start time is at or
\* before the clock at the time of the call.
C18_ListingOnlyFutureClasses ==
  [][ \A p \in Callers :
        ReadStep(p, "classes")
        => \A i \in 1..Len(Val(http'[p].body)) :
              Val(http'[p].body)[i].date_time > now ]_vars

\* C18 witness: a listing made after some class has started, and before the
\* clock moved again, holds some classes but not all.
C18_Witness ==
  \E p \in Callers :
     /\ DoneWith(p, "classes")
     /\ Val(http[p].body) = SvcGetAllClasses
     /\ \E c \in ClassIds : classes[c].date_time <= now
     /\ Len(Val(http[p].body)) > 0

RECURSIVE TotalSlotsOf(_)
\* the total_slots of the classes with the given ids, added up
TotalSlotsOf(ids) ==
  IF ids = {} THEN 0
  ELSE LET c == CHOOSE c \in ids : TRUE
       IN classes[c].total_slots + TotalSlotsOf(ids \ {c})

RECURSIVE AvailableSlotsOf(_)
\* the available_slots of the classes with the given ids, added up
AvailableSlotsOf(ids) ==
  IF ids = {} THEN 0
  ELSE LET c == CHOOSE c \in ids : TRUE
       IN classes[c].available_slots + AvailableSlotsOf(ids \ {c})

\* C19: statistics() returns the sums of total_slots and available_slots of
\* the upcoming classes, booked_slots as their difference and
\* booking_percentage as booked_slots / total_slots * 100 rounded to two
\* decimals (0 when total_slots is 0), and the percentage lies between 0 and
\* 100 in every reachable state. (Percentages are in hundredths.)
C19_StatisticsInRange ==
  [][ \A p \in Callers :
        ReadStep(p, "stats")
        => LET st == Val(http'[p].body)
               upcoming == { c \in ClassIds : classes[c].date_time > now }
           IN /\ st.total_classes = Cardinality(upcoming)
              /\ st.total_slots = TotalSlotsOf(upcoming)
              /\ st.available_slots = AvailableSlotsOf(upcoming)
              /\ st.booked_slots = st.total_slots - st.available_slots
              /\ st.total_slots = 0 => st.booking_percentage = 0
              /\ st.total_slots > 0
                 => /\ 2 * (st.booking_percentage * st.total_slots
                            - st.booked_slots * 10000) <= st.total_slots
                    /\ 2 * (st.booked_slots * 10000
                            - st.booking_percentage * st.total_slots)
                         <= st.total_slots
              /\ 0 <= st.booking_percentage
              /\ st.booking_percentage <= 10000 ]_vars

\* C20: every booking request that has started runs to completion under fair
\* scheduling, and concurrent requests never wait for each other forever: the
\* write lock is only ever held by a request that is about to write or to
\* commit, never by one that waits or has ended.
C20_RequestsComplete ==
  /\ [](\A p \in Callers :
          lock = Some(p) => pc[p] \in {"db_update", "db_commit"})
  /\ \A p \in Callers : (pc[p] # "idle") ~> (pc[p] = "done")

\* C20 witness: a request waits at its INSERT for the write lock that a
\* concurrent request for the same class holds.
C20_Witness ==
  \E p, q \in Callers :
     /\ p # q
     /\ lock = Some(q)
     /\ pc[p] = "db_insert"
     /\ req[p].class_id = req[q].class_id

\* C21: in every step existing Booking rows are neither changed nor deleted,
\* no class is deleted, each class keeps its name, start time and total_slots,
\* and a class's available_slots changes only by decreasing by 1 in the step
\* that commits a booking for that same class; a booking for class c leaves
\* every other class unchanged.
C21_FrameOfBooking ==
  [][ /\ Len(bookings') >= Len(bookings)
      /\ \A i \in 1..Len(bookings) : bookings'[i] = bookings[i]
      /\ DOMAIN classes' = DOMAIN classes
      /\ \A c \in DOMAIN classes :
           /\ classes'[c].name = classes[c].name
           /\ classes'[c].date_time = classes[c].date_time
           /\ classes'[c].total_slots = classes[c].total_slots
           /\ classes'[c].available_slots # classes[c].available_slots
              => /\ classes'[c].available_slots = classes[c].available_slots - 1
                 /\ \E p \in Callers : CommitStep(p) /\ req[p].class_id = c ]_vars

\* C21 witness: a booking has been committed for one class (a slot is taken
\* and its row is there) while another class still has all its slots.
C21_Witness ==
  \E c, d \in ClassIds :
     /\ c # d
     /\ classes[c].available_slots = classes[c].total_slots - 1
     /\ Cardinality(RowsOfClass(c)) = 1
     /\ classes[d].available_slots = classes[d].total_slots
     /\ RowsOfClass(d) = {}

\* caller p's request through the service has succeeded
Succeeded(p) ==
  /\ pc[p] = "done"
  /\ req[p].entry \in {"svc", "book"}
  /\ svcret[p].kind = "returned"
  /\ ~IsNone(svcret[p].value)

\* C22: for every Booking row, booking_date equals the stored start time of
\* the class it references, and the booking_date of a success response equals
\* the booking_date stored in the row of the booking it reports.
C22_BookingDateIsClassStart ==
  /\ \A i \in 1..Len(bookings) :
        /\ bookings[i].class_id \in DOMAIN classes
        /\ bookings[i].booking_date = classes[bookings[i].class_id].date_time
  /\ \A p \in Callers :
        Succeeded(p)
        => \E i \in 1..Len(bookings) :
              /\ bookings[i].id = Val(svcret[p].value).booking_id
              /\ bookings[i].booking_date = Val(svcret[p].value).booking_date
              /\ req[p].entry = "book"
                 => Val(http[p].body).booking_date = bookings[i].booking_date

\* C22 witness: a booking made some time after the seeding has succeeded and
\* its row is in the table.
C22_Witness ==
  \E p \in Callers :
     /\ Succeeded(p)
     /\ req[p].entry = "book"
     /\ now > 0
     /\ \E i \in 1..Len(bookings) :
           bookings[i].id = Val(http[p].body).booking_id

\* C23: starting from the seeded store, in every committed state and for
\* every class total_slots - available_slots is the number of Booking rows of
\* the class, for sequential and for concurrent booking attempts alike; so
\* the booked_slots that statistics reports is the number of bookings held
\* for the classes it lists.
C23_BookedSlotsCountBookings ==
  [][ /\ \A c \in ClassIds :
           classes'[c].total_slots - classes'[c].available_slots
             = Cardinality(RowsOfClass(c))'
      /\ \A p \in Callers :
           ReadStep(p, "stats")
           => Val(http'[p].body).booked_slots
                = Cardinality({ i \in 1..Len(bookings) :
                                  classes[bookings[i].class_id].date_time > now }) ]_vars

\* C23 witness: statistics has just been asked for while bookings are held
\* both for a class that has started and for one that has not; it reports
\* the one booking of the upcoming class.
C23_Witness ==
  \E p \in Callers :
     /\ DoneWith(p, "stats")
     /\ Val(http[p].body) = get_booking_statistics
     /\ Val(http[p].body).booked_slots = 1
     /\ Len(bookings) = 2

\* caller p's POST /book request, past validate, ends in this step without a
\* booking
CreateFails(p) ==
  /\ req[p].entry = "book"
  /\ pc[p] \in {"svc_class"} \cup DbPcs
  /\ pc'[p] = "done"
  /\ http'[p].status # 200

\* a storage fault ends caller p's create in this step
StorageFault(p) == dberr'[p] \/ dbret'[p].kind = "raised"

\* C24: a request that passed validate fails in create only because of an
\* intervening commit, the passage of time or a storage fault. Validate passes
\* only a request whose class is upcoming and not full and whose client does
\* not hold the class; a class becomes full, and a client comes to hold it,
\* only by the commit of a booking, and a class stops being upcoming only by
\* the clock; create fails only on a storage fault or when it finds the class
\* started, full or held; and a create that commits is answered as a success.
C24_CreateAfterValidate ==
  [][ /\ \A p \in Callers :
           /\ (pc[p] = "val_class" /\ pc'[p] = "val_dups")
              => ~ClassMissing(p) /\ ~Full(req[p].class_id)
           /\ (pc[p] = "val_dups" /\ pc'[p] = "svc_class")
              => ~Holds(req[p].class_id, req[p].client_email)
           /\ CreateFails(p)
              => /\ pc[p] = "svc_class"
                      => ClassMissing(p) \/ Full(req[p].class_id)
                 /\ pc[p] = "db_class"
                      => StorageFault(p) \/ Full(req[p].class_id)
                 /\ pc[p] = "db_dups"
                      => \/ StorageFault(p)
                         \/ Holds(req[p].class_id, req[p].client_email)
                 /\ pc[p] \in {"db_insert", "db_update", "db_commit"}
                      => StorageFault(p)
           /\ (CommitStep(p) /\ req[p].entry = "book") => http'[p].status = 200
      /\ \A c \in ClassIds :
           /\ (~Full(c) /\ Full(c)')
              => \E q \in Callers : CommitStep(q) /\ req[q].class_id = c
           /\ (classes[c].date_time > now /\ classes'[c].date_time <= now')
              => now' > now
           /\ \A e \in Emails :
                (~Holds(c, e) /\ Holds(c, e)')
                => \E q \in Callers :
                      /\ CommitStep(q)
                      /\ req[q].class_id = c /\ req[q].client_email = e ]_vars

\* C24 witness: a POST /book request that ran alone, with no clock tick and
\* no fault, has passed validate and has been booked.
C24_Witness ==
  \E p \in Callers :
     /\ Succeeded(p)
     /\ req[p].entry = "book"
     /\ started = 1
     /\ now = 0
     /\ Len(bookings) = 1

\* caller p takes a step of validate_booking_request
ValidateStep(p) == pc[p] \in {"val_class", "val_dups"} /\ pc'[p] # pc[p]

Upcoming(c) == c \in DOMAIN classes /\ classes[c].date_time > now

\* fc is the row of class c as a FitnessClass
IsClassRow(fc, c) ==
  /\ ~IsNone(fc)
  /\ Val(fc).id = c
  /\ Val(fc).name = classes[c].name
  /\ Val(fc).date_time = classes[c].date_time
  /\ Val(fc).instructor = classes[c].instructor
  /\ Val(fc).available_slots = classes[c].available_slots
  /\ Val(fc).total_slots = classes[c].total_slots

\* C26: getClass(id) at the service level returns the class if and only if a
\* class with that id exists and its start time is strictly in the future;
\* otherwise it returns not found (also for a class that was returned before
\* its start time passed: the clock never goes back and no start time
\* changes).
C26_ClassReturnedIffUpcoming ==
  [][ /\ now' >= now
      /\ \A c \in DOMAIN classes : classes'[c].date_time = classes[c].date_time
      /\ \A p \in Callers :
           (ReadStep(p, "class") /\ req'[p].class_id > 0)
           => IF Upcoming(req'[p].class_id)
              THEN /\ IsClassRow(svcret'[p].value, req'[p].class_id)
                   /\ http'[p].status = 200
                   /\ http'[p].body = svcret'[p].value
              ELSE /\ IsNone(svcret'[p].value)
                   /\ http'[p].status = 404
                   /\ http'[p].detail = MsgClassNotFound ]_vars

\* caller p's Database.create_booking has returned a booking id
Created(p) ==
  pc[p] = "done" /\ dbret[p].kind = "returned" /\ ~IsNone(dbret[p].value)

\* C27: the booking ids returned by successful create_booking calls are
\* positive and pairwise distinct, also for concurrent bookings: each is the
\* id of a committed row, the service never takes it for a failure, and no
\* two rows of the bookings table share an id.
C27_BookingIdsPositiveDistinct ==
  /\ \A i \in 1..Len(bookings) :
        /\ bookings[i].id > 0
        /\ \A j \in 1..Len(bookings) : bookings[i].id = bookings[j].id => i = j
  /\ \A p \in Callers :
        Created(p)
        => /\ Val(dbret[p].value) > 0
           /\ \E i \in 1..Len(bookings) :
                 /\ bookings[i].id = Val(dbret[p].value)
                 /\ bookings[i].class_id = req[p].class_id
                 /\ bookings[i].client_email = req[p].client_email
           /\ req[p].entry \in {"svc", "book"}
              => /\ ~IsNone(svcret[p].value)
                 /\ Val(svcret[p].value).booking_id = Val(dbret[p].value)
           /\ \A q \in Callers \ {p} :
                 Created(q) => Val(dbret[q].value) # Val(dbret[p].value)

\* C27 witness: two concurrent requests for the same class have both been
\* booked (the class is overbooked), each with an id of its own.
C27_Witness ==
  \E p, q \in Callers :
     /\ p # q
     /\ Succeeded(p) /\ Succeeded(q)
     /\ Created(p) /\ Created(q)
     /\ req[p].class_id = req[q].class_id
     /\ classes[req[p].class_id].available_slots < 0
     /\ Len(bookings) = 2

====
